---- MODULE Spec2Model ----
(***************************************************************************)
(* PerfectMap (src/src/lib.rs): a read-only map made of a minimal perfect  *)
(* hash function (ph::fmph::GOFunction, the "oracle") and a value vector   *)
(* ordered by slot.  The model covers PerfectMap::new (the reordering      *)
(* loop), PerfectMap::get, the serde Serialize impl and the two visitor    *)
(* paths of the Deserialize impl (visit_seq, visit_map).                   *)
(*                                                                         *)
(* Option<T> is modelled as a sequence: <<>> is None, <<x>> is Some(x).    *)
(***************************************************************************)
EXTENDS Integers, Sequences, FiniteSets, TLC

\* ---------------------------------------------------------------- bounds
\* Longest key / value list handed to PerfectMap::new.
MaxLen == 2
\* Longest record (number of entries) handed to the deserializer.
MaxEntries == 3

\* ---------------------------------------------------------- input domains
\* The keys a caller may use; at most MaxLen of them are construction keys,
\* the others are looked up as non-members.
Keys == <<"a", "b", "z">>
KeySet == {Keys[n] : n \in 1..Len(Keys)}
KeyIndex(k) == CHOOSE n \in 1..Len(Keys) : Keys[n] = k
ValueSet == {1, 2}

None == <<>>
Some(x) == <<x>>

SeqsUpTo(S, n) == UNION {[1..m -> S] : m \in 0..n}
Distinct(s) == \A m, n \in 1..Len(s) : m # n => s[m] # s[n]

\* ------------------------------------------------------------- the oracle
\* GOFunction::from_slice_with_conf(&keys, ..): the functions ph may build
\* over pairwise distinct keys.  Every construction key gets its own slot in
\* [0, n); a key outside the construction set evaluates to no slot or to
\* any slot in [0, n).
Oracles(ks) ==
    {f \in [KeySet -> {None} \cup {Some(s) : s \in 0..(Len(ks) - 1)}] :
        \A m, n \in 1..Len(ks) :
            /\ f[ks[m]] # None
            /\ (m # n => f[ks[m]] # f[ks[n]])}

\* GOFunction::get(key) -> Option<u64>
hasher_get(f, k) == f[k]

\* GOFunction::write(&mut hasher_bytes): the oracle as bytes, one byte per
\* key of the key universe: 0 for "no slot", slot + 1 otherwise.
write(f) ==
    [n \in 1..Len(Keys) |-> IF f[Keys[n]] = None THEN 0 ELSE f[Keys[n]][1] + 1]

\* GOFunction::read(&mut bytes) succeeds iff the buffer holds a whole table.
read_ok(bytes) == Len(bytes) = Len(Keys)

\* GOFunction::read(&mut bytes), on a buffer read_ok accepts.
read(bytes) ==
    [k \in KeySet |->
        IF bytes[KeyIndex(k)] = 0 THEN None ELSE Some(bytes[KeyIndex(k)] - 1)]

\* ----------------------------------------------------------------- state
VARIABLES
    pc,             \* "start", "new_loop", "ready", "deserialize", "done", "panic"
    keys,           \* PerfectMap::new: the keys argument
    values,         \* PerfectMap::new: the values argument
    hasher,         \* PerfectMap::new: Option of the oracle built over keys
    reordered_vals, \* PerfectMap::new: the spare capacity, slot -> Option<V>
    iter,           \* PerfectMap::new: number of (k, v) pairs consumed by the loop
    built,          \* Option of the PerfectMap returned by new
    got,            \* Option of the last get call: receiver, key and result
    wire,           \* Option of the record handed to Deserialize
    pos,            \* visitor: number of entries / elements consumed
    de_values,      \* visitor: the local `values`, Option<Vec<V>>
    function_bytes, \* visitor: the local `function_bytes`, Option
    result          \* what Deserialize returned

vars == <<pc, keys, values, hasher, reordered_vals, iter, built, got, wire, pos,
          de_values, function_bytes, result>>

new_vars == <<keys, values, hasher, reordered_vals, iter, built>>
de_vars == <<wire, pos, de_values, function_bytes, result>>

\* Result<PerfectMap, D::Error>
NoResult == [tag |-> "None", kind |-> "", arg |-> "", index |-> 0, map |-> None]
Ok(m) == [tag |-> "Ok", kind |-> "", arg |-> "", index |-> 0, map |-> Some(m)]
Err(kind, arg, index) ==
    [tag |-> "Err", kind |-> kind, arg |-> arg, index |-> index, map |-> None]

Init ==
    /\ pc = "start"
    /\ keys = <<>>
    /\ values = <<>>
    /\ hasher = None
    /\ reordered_vals = <<>>
    /\ iter = 0
    /\ built = None
    /\ got = None
    /\ wire = None
    /\ pos = 0
    /\ de_values = None
    /\ function_bytes = None
    /\ result = NoResult

\* ------------------------------------------------------- PerfectMap::new
\* new, up to the loop: the length assertion, the oracle's construction
\* (which fails on duplicate keys) and Vec::with_capacity(map_len).
New ==
    /\ pc = "start"
    /\ \E ks \in SeqsUpTo(KeySet, MaxLen), vs \in SeqsUpTo(ValueSet, MaxLen) :
        /\ keys' = ks
        /\ values' = vs
        /\ IF Len(ks) # Len(vs) \/ ~Distinct(ks)
           THEN /\ pc' = "panic"
                /\ UNCHANGED <<hasher, reordered_vals>>
           ELSE /\ pc' = "new_loop"
                /\ \E f \in Oracles(ks) : hasher' = Some(f)
                /\ reordered_vals' = [s \in 1..Len(vs) |-> None]
    /\ iter' = 0
    /\ UNCHANGED <<built, got>>
    /\ UNCHANGED de_vars

\* reordered_vals.spare_capacity_mut()[new_idx].write(v.into())
WriteSlotFirst(buf, new_idx, v) == [buf EXCEPT ![1] = Some(v)]
WriteSlotPush(buf, new_idx, v) ==
    LET free == {s \in 1..Len(buf) : buf[s] = None}
    IN  IF free = {} THEN buf
        ELSE [buf EXCEPT ![CHOOSE s \in free : \A t \in free : s <= t] = Some(v)]
WriteSlot(buf, new_idx, v) == [buf EXCEPT ![new_idx + 1] = Some(v)]

\* One iteration of the loop over keys.zip(values).
NewStep ==
    /\ pc = "new_loop"
    /\ iter < Len(keys)
    /\ LET k == keys[iter + 1]
           v == values[iter + 1]
           slot == hasher_get(hasher[1], k)
       IN  IF slot = None \/ slot[1] >= Len(reordered_vals)
           THEN /\ pc' = "panic"
                /\ UNCHANGED <<reordered_vals, iter>>
           ELSE /\ reordered_vals' = WriteSlot(reordered_vals, slot[1], v)
                /\ iter' = iter + 1
                /\ pc' = pc
    /\ UNCHANGED <<keys, values, hasher, built, got>>
    /\ UNCHANGED de_vars

\* set_len(map_len) and the struct literal.  A slot the loop never wrote is
\* read uninitialised: it may hold any value.
NewFinish ==
    /\ pc = "new_loop"
    /\ iter = Len(keys)
    /\ \E w \in [1..Len(values) -> ValueSet] :
        /\ \A s \in 1..Len(values) :
              reordered_vals[s] # None => w[s] = reordered_vals[s][1]
        /\ built' = Some([function |-> hasher[1], values |-> w])
    /\ pc' = "ready"
    /\ hasher' = None
    /\ reordered_vals' = <<>>
    /\ iter' = 0
    /\ UNCHANGED <<keys, values, got>>
    /\ UNCHANGED de_vars

\* ------------------------------------------------------- PerfectMap::get
\* Vec::get(idx): the bounds-checked access.
VecGetClamped(v, idx) ==
    IF idx < Len(v) THEN Some(v[idx + 1])
    ELSE IF Len(v) > 0 THEN Some(v[Len(v)]) ELSE None
VecGet(v, idx) == IF idx < Len(v) THEN Some(v[idx + 1]) ELSE None

\* self.function.get(key).and_then(|v| self.values.get(v as usize))
get(m, key) ==
    LET slot == hasher_get(m.function, key)
    IN  IF slot = None THEN None ELSE VecGet(m.values, slot[1])

\* The map a get call is made on: the one new built, or the one Deserialize
\* returned.
Receiver(src) == IF src = "new" THEN built ELSE result.map

Get ==
    /\ pc \in {"ready", "done"}
    /\ \E src \in {"new", "de"}, key \in KeySet :
        /\ Receiver(src) # None
        /\ got' = Some([src |-> src, key |-> key,
                        res |-> get(Receiver(src)[1], key)])
    /\ UNCHANGED pc
    /\ UNCHANGED new_vars
    /\ UNCHANGED de_vars

\* ------------------------------------------------------------ the formats
\* What the model keeps of a serde data format (the Serializer / Deserializer
\* the caller picks):
\*   human_readable  what is_human_readable() answers;
\*   struct_as       whether deserialize_struct drives visit_map or visit_seq;
\*   seq_ok          whether a byte buffer can be read through deserialize_seq
\*                   (JSON writes bytes as an array of numbers; bincode's
\*                   layout of bytes and of a sequence of u8 is the same; a
\*                   CBOR byte string is not a sequence);
\*   borrow_ok       whether deserialize_bytes can lend a slice of the input
\*                   (visit_borrowed_bytes / visit_borrowed_str).
Formats ==
    [human_readable : BOOLEAN, struct_as : {"map", "seq"},
     seq_ok : BOOLEAN, borrow_ok : BOOLEAN]

\* One entry of a record: the field name (ignored by the positional
\* encoding), the payload, and whether the payload is well-formed data.
Entry(field, data, wf) == [field |-> field, data |-> data, wf |-> wf]

\* Vec::<u8>::deserialize: deserialize_seq, the visitor takes visit_seq only.
DeserializeVecU8(fmt, e) ==
    IF e.wf /\ fmt.seq_ok THEN Some([repr |-> "Owned", bytes |-> e.data]) ELSE None

\* <&[u8]>::deserialize: deserialize_bytes, the visitor takes borrowed data only.
DeserializeSliceU8(fmt, e) ==
    IF e.wf /\ fmt.borrow_ok THEN Some([repr |-> "Borrowed", bytes |-> e.data]) ELSE None

\* CowBytes::deserialize: the format decides.  Declared inside
\* Deserialize::deserialize; neither visitor path names it.
CowBytesDeserialize(fmt, e) ==
    IF fmt.human_readable THEN DeserializeVecU8(fmt, e) ELSE DeserializeSliceU8(fmt, e)

\* visit_seq: `let function_bytes: &[u8] = seq.next_element()?`
SeqFunctionBytes(fmt, e) == DeserializeSliceU8(fmt, e)

\* visit_map: `function_bytes: Option<Cow<'de, [u8]>>`, next_value() of type
\* Cow<'de, [u8]>, whose Deserialize impl reads the owned form (Vec<u8>).
MapFunctionBytes(fmt, e) == DeserializeVecU8(fmt, e)

\* Vec::<V>::deserialize of the values payload.
DeserializeValues(fmt, e) == IF e.wf THEN Some(e.data) ELSE None

\* ------------------------------------------------------------- Serialize
\* serialize_struct("PerfectMap", 2): `values`, then `function` holding the
\* bytes GOFunction::write produced.
Serialize ==
    /\ pc = "ready"
    /\ \E fmt \in Formats :
        wire' = Some([fmt |-> fmt, from_ser |-> TRUE,
                      entries |-> <<Entry("values", built[1].values, TRUE),
                                    Entry("function", write(built[1].function), TRUE)>>])
    /\ pc' = "deserialize"
    /\ pos' = 0
    /\ de_values' = None
    /\ function_bytes' = None
    /\ result' = NoResult
    /\ UNCHANGED got
    /\ UNCHANGED new_vars

\* ----------------------------------------------------------- Deserialize
\* The payloads of a record that did not come from Serialize: byte strings
\* of which the last is a whole oracle table.
DataPool == {<<>>, <<1, 2>>, <<2, 1, 3>>}

EntryPool ==
    {Entry(f, d, TRUE) : f \in {"values", "function"}, d \in DataPool}
        \cup {Entry(f, <<>>, FALSE) : f \in {"values", "function"}}
        \cup {Entry("other", <<>>, TRUE)}

\* Deserialize::deserialize on a record the caller supplies.
Input ==
    /\ pc = "start"
    /\ \E fmt \in Formats, es \in SeqsUpTo(EntryPool, MaxEntries) :
        wire' = Some([fmt |-> fmt, from_ser |-> FALSE, entries |-> es])
    /\ pc' = "deserialize"
    /\ UNCHANGED <<pos, de_values, function_bytes, result, got>>
    /\ UNCHANGED new_vars

\* GOFunction::read(..).map_err(|_| custom(..)) and the struct literal.
ExpectedMsg == "invalid bytes: expected bytes representing a ph::GOFunction"
ReadFunctionLenient(vals, fb) ==
    IF read_ok(fb.bytes)
    THEN Ok([function |-> read(fb.bytes), values |-> vals])
    ELSE Ok([function |-> [k \in KeySet |-> None], values |-> vals])
ReadFunction(vals, fb) ==
    IF read_ok(fb.bytes)
    THEN Ok([function |-> read(fb.bytes), values |-> vals])
    ELSE Err("custom", ExpectedMsg, 0)

\* visit_seq: invalid_length(0, ..) for `values`, invalid_length(1, ..) for
\* `function`.
ElementIndexZero(name) == 0
ElementIndex(name) == IF name = "values" THEN 0 ELSE 1

\* visit_seq, whole: two next_element calls, then the oracle is read.
VisitSeq ==
    /\ pc = "deserialize"
    /\ wire[1].fmt.struct_as = "seq"
    /\ LET fmt == wire[1].fmt
           es == wire[1].entries
           v == IF Len(es) >= 1 THEN DeserializeValues(fmt, es[1]) ELSE None
           fb == IF Len(es) >= 2 THEN SeqFunctionBytes(fmt, es[2]) ELSE None
       IN  IF Len(es) = 0
           THEN /\ result' = Err("invalid_length", "", ElementIndex("values"))
                /\ UNCHANGED <<pos, de_values, function_bytes>>
           ELSE IF v = None
           THEN /\ result' = Err("invalid_type", "", 0)
                /\ UNCHANGED <<pos, de_values, function_bytes>>
           ELSE IF Len(es) = 1
           THEN /\ result' = Err("invalid_length", "", ElementIndex("function"))
                /\ pos' = 1
                /\ de_values' = v
                /\ UNCHANGED function_bytes
           ELSE IF fb = None
           THEN /\ result' = Err("invalid_type", "", 0)
                /\ pos' = 1
                /\ de_values' = v
                /\ UNCHANGED function_bytes
           ELSE /\ result' = ReadFunction(v[1], fb[1])
                /\ pos' = 2
                /\ de_values' = v
                /\ function_bytes' = fb
    /\ pc' = "done"
    /\ UNCHANGED <<wire, got>>
    /\ UNCHANGED new_vars

\* visit_map: `if function_bytes.is_some()` / `if values.is_some()`
AlreadySeenFunctionOnly(field, vals, fb) == field = "function" /\ fb # None
AlreadySeen(field, vals, fb) ==
    IF field = "function" THEN fb # None ELSE vals # None

\* visit_map: the error of either is_some() branch.
DuplicateField(field) == Err("duplicate_field", "function", 0)

\* visit_map: one turn of `while let Some(key) = map.next_key()?`.
VisitMapEntry ==
    /\ pc = "deserialize"
    /\ wire[1].fmt.struct_as = "map"
    /\ pos < Len(wire[1].entries)
    /\ LET fmt == wire[1].fmt
           e == wire[1].entries[pos + 1]
           fb == MapFunctionBytes(fmt, e)
           v == DeserializeValues(fmt, e)
           fail(err) == /\ result' = err
                        /\ pc' = "done"
                        /\ UNCHANGED <<pos, de_values, function_bytes>>
       IN  IF e.field \notin {"values", "function"}
           THEN fail(Err("unknown_field", e.field, 0))
           ELSE IF AlreadySeen(e.field, de_values, function_bytes)
           THEN fail(DuplicateField(e.field))
           ELSE IF e.field = "function"
           THEN IF fb = None
                THEN fail(Err("invalid_type", "", 0))
                ELSE /\ function_bytes' = fb
                     /\ pos' = pos + 1
                     /\ UNCHANGED <<pc, de_values, result>>
           ELSE IF v = None
                THEN fail(Err("invalid_type", "", 0))
                ELSE /\ de_values' = v
                     /\ pos' = pos + 1
                     /\ UNCHANGED <<pc, function_bytes, result>>
    /\ UNCHANGED <<wire, got>>
    /\ UNCHANGED new_vars

\* visit_map: the two ok_or_else(missing_field) lines; Option of the absent
\* field's name.
MissingFieldValuesFirst(vals, fb) ==
    IF vals = None THEN Some("values")
    ELSE IF fb = None THEN Some("function") ELSE None
MissingField(vals, fb) ==
    IF fb = None THEN Some("function")
    ELSE IF vals = None THEN Some("values") ELSE None

\* visit_map after the loop (next_key returned None).
VisitMapEnd ==
    /\ pc = "deserialize"
    /\ wire[1].fmt.struct_as = "map"
    /\ pos = Len(wire[1].entries)
    /\ LET missing == MissingField(de_values, function_bytes)
       IN  result' = IF missing # None
                     THEN Err("missing_field", missing[1], 0)
                     ELSE ReadFunction(de_values[1], function_bytes[1])
    /\ pc' = "done"
    /\ UNCHANGED <<wire, pos, de_values, function_bytes, got>>
    /\ UNCHANGED new_vars

Next ==
    \/ New
    \/ NewStep
    \/ NewFinish
    \/ Get
    \/ Serialize
    \/ Input
    \/ VisitSeq
    \/ VisitMapEntry
    \/ VisitMapEnd

Spec == Init /\ [][Next]_vars

\* ================================================================ claims
\* Helpers of the formulas below: the record under deserialization.
WireEntries == IF wire = None THEN <<>> ELSE wire[1].entries
WireIs(enc) == wire # None /\ wire[1].fmt.struct_as = enc
HasField(f) == \E n \in 1..Len(WireEntries) : WireEntries[n].field = f
CountField(f) == Cardinality({n \in 1..Len(WireEntries) : WireEntries[n].field = f})

\* C1: after new(keys, values) over pairwise distinct keys, get(k) of a
\* construction key k returns Some(v), v being the value that stood at k's
\* position in the input, whatever bijection the oracle chose.
C1_GetReturnsPairedValue ==
    (got # None /\ got[1].src = "new") =>
        \A n \in 1..Len(keys) :
            keys[n] = got[1].key => got[1].res = Some(values[n])

\* C1's case: two keys with different values, the oracle swaps their slots,
\* and the second key was looked up.
C1_Witness ==
    /\ got # None /\ got[1].src = "new"
    /\ Len(keys) = 2 /\ values[1] # values[2]
    /\ built[1].function[keys[2]] = Some(0)
    /\ got[1].key = keys[2]
    /\ got[1].res = Some(values[2])

\* C2: a serialized map deserializes, and the result answers every
\* construction key as the original does, on the visit_map and on the
\* visit_seq path alike.
C2_RoundTrip ==
    (pc = "done" /\ wire # None /\ wire[1].from_ser) =>
        /\ result.tag = "Ok"
        /\ \A n \in 1..Len(keys) :
              get(result.map[1], keys[n]) = get(built[1], keys[n])

\* C3: in visit_map a second `values` or `function` entry ends
\* deserialization with a duplicate-field error at that entry; no entry past
\* a repeated field is ever consumed, no map is returned, and the locals
\* keep the payload of the first occurrence.
C3_DuplicateRejected ==
    WireIs("map") =>
        /\ \A m, n \in 1..pos : m # n => WireEntries[m].field # WireEntries[n].field
        /\ (/\ pc = "done"
            /\ pos < Len(WireEntries)
            /\ WireEntries[pos + 1].field \in {"values", "function"}
            /\ \E m \in 1..pos : WireEntries[m].field = WireEntries[pos + 1].field)
           => /\ result.tag = "Err"
              /\ result.kind = "duplicate_field"
              /\ result.map = None
        /\ de_values # None =>
              \E m \in 1..pos : /\ WireEntries[m].field = "values"
                                /\ WireEntries[m].data = de_values[1]
        /\ function_bytes # None =>
              \E m \in 1..pos : /\ WireEntries[m].field = "function"
                                /\ WireEntries[m].data = function_bytes[1].bytes

\* C3's case: a second `values` entry with another payload was met.
C3_Witness ==
    /\ WireIs("map") /\ pc = "done"
    /\ pos < Len(WireEntries)
    /\ WireEntries[pos + 1].field = "values"
    /\ de_values # None
    /\ WireEntries[pos + 1].wf
    /\ WireEntries[pos + 1].data # de_values[1]
    /\ result.kind = "duplicate_field"

\* C4: in visit_map, when the input ends before both fields were seen the
\* result is a missing-field error naming `function` if function is absent
\* and `values` if only values is absent, and no map; a map is returned only
\* when each field was seen exactly once.
C4_MissingField ==
    (WireIs("map") /\ pc = "done") =>
        /\ (pos = Len(WireEntries) /\ ~HasField("function"))
              => result = Err("missing_field", "function", 0)
        /\ (pos = Len(WireEntries) /\ HasField("function") /\ ~HasField("values"))
              => result = Err("missing_field", "values", 0)
        /\ result.tag = "Ok"
              => /\ CountField("values") = 1
                 /\ CountField("function") = 1
                 /\ pos = Len(WireEntries)

\* C4's case: only `function` was present when the input ended.
C4_Witness ==
    /\ WireIs("map") /\ pc = "done"
    /\ pos = Len(WireEntries)
    /\ HasField("function") /\ ~HasField("values")
    /\ result = Err("missing_field", "values", 0)

\* C5: in visit_seq the first element is read as `values` and the second as
\* `function`; an empty sequence fails with invalid_length(0) and a sequence
\* of one element (read as values) fails with invalid_length(1); neither
\* returns a map.
C5_SeqLength ==
    (WireIs("seq") /\ pc = "done") =>
        /\ Len(WireEntries) = 0 => result = Err("invalid_length", "", 0)
        /\ (Len(WireEntries) = 1 /\ WireEntries[1].wf)
              => result = Err("invalid_length", "", 1)
        /\ de_values # None => de_values[1] = WireEntries[1].data
        /\ function_bytes # None => function_bytes[1].bytes = WireEntries[2].data
        /\ result.tag = "Ok" => result.map[1].values = WireEntries[1].data

\* C5's case: a sequence of one element was decoded.
C5_Witness ==
    /\ WireIs("seq") /\ pc = "done"
    /\ Len(WireEntries) = 1
    /\ de_values = Some(<<1, 2>>)
    /\ result.kind = "invalid_length" /\ result.index = 1

\* C6: wherever the `function` buffer is read, a human-readable format reads
\* it as an owned byte sequence and a binary format as a slice borrowed from
\* the input.
C6_FormatDecidesBytes ==
    function_bytes # None =>
        function_bytes[1].repr =
            IF wire[1].fmt.human_readable THEN "Owned" ELSE "Borrowed"

\* C7: in both encodings, when `values` was decoded and the `function` bytes
\* are handed to the oracle's read and are no valid encoding, the result is
\* the custom error naming the expected content, and no map.
C7_InvalidOracleBytes ==
    (/\ pc = "done"
     /\ de_values # None
     /\ function_bytes # None
     /\ pos = (IF WireIs("map") THEN Len(WireEntries) ELSE 2)
     /\ ~read_ok(function_bytes[1].bytes))
    => /\ result.tag = "Err"
       /\ result.kind = "custom"
       /\ result.arg = "invalid bytes: expected bytes representing a ph::GOFunction"
       /\ result.map = None

\* C7's case: both fields decoded, the function bytes are a truncated table.
C7_Witness ==
    /\ pc = "done" /\ WireIs("map")
    /\ de_values = Some(<<2, 1, 3>>)
    /\ function_bytes # None /\ function_bytes[1].bytes = <<1, 2>>
    /\ pos = Len(WireEntries)
    /\ result.kind = "custom"

\* C8: while new's loop runs, the slots written so far are as many as the
\* pairs consumed (no slot is written twice, every written index is < n and
\* the loop never panics); when the loop ends every slot is written, and the
\* map's values have the length of keys.
C8_SlotsWrittenOnce ==
    /\ pc = "new_loop" =>
          /\ Len(reordered_vals) = Len(keys)
          /\ Cardinality({s \in 1..Len(reordered_vals) : reordered_vals[s] # None}) = iter
    /\ (pc = "new_loop" /\ iter = Len(keys)) =>
          \A s \in 1..Len(keys) : reordered_vals[s] # None
    /\ pc = "panic" => hasher = None
    /\ built # None =>
          /\ Len(built[1].values) = Len(keys)
          /\ Len(keys) = Len(values)

\* C8's case: the loop over MaxLen keys has ended, set_len is next.
C8_Witness ==
    /\ pc = "new_loop"
    /\ iter = Len(keys)
    /\ Len(keys) = MaxLen
    /\ reordered_vals[1] = Some(values[2])

\* C9: get on any map, built or deserialized, for any key: None when the
\* oracle yields no slot or a slot >= values.len(), Some(values[slot])
\* otherwise.
C9_GetBoundsChecked ==
    got # None =>
        LET m == Receiver(got[1].src)[1]
            slot == m.function[got[1].key]
        IN  IF slot = None \/ slot[1] >= Len(m.values)
            THEN got[1].res = None
            ELSE got[1].res = Some(m.values[slot[1] + 1])

\* C9's case: a deserialized map whose oracle yields a slot past the end of
\* its values.
C9_Witness ==
    /\ got # None /\ got[1].src = "de"
    /\ result.map # None
    /\ result.map[1].function[got[1].key] = Some(2)
    /\ Len(result.map[1].values) = 2
    /\ got[1].res = None

\* C10: the duplicate-field error names the field that was repeated.
C10_DuplicateNamesField ==
    (WireIs("map") /\ pc = "done" /\ result.kind = "duplicate_field") =>
        result.arg = WireEntries[pos + 1].field
====
